---- MODULE Spec2Model ----
(***************************************************************************)
(* A model of mta-bundler: the bundling pass of an MTA resource (manifest  *)
(* parsing, the file catalogue, output-path resolution, script grouping,   *)
(* manifest rewriting) and the batch driver around it.                     *)
(*                                                                         *)
(* Text is modelled as it is in the program: a Go string is a sequence of  *)
(* one-character strings, a path is such a string with "/" separators, and *)
(* the path/filepath, strings and regexp calls of the code are computed on  *)
(* the characters.                                                         *)
(***************************************************************************)
EXTENDS Integers, Sequences, FiniteSets, TLC

----------------------------------------------------------------------------
(* Go strings *)

\* The empty Go string "".
Empty == << >>

Min(S) == CHOOSE x \in S : \A y \in S : x <= y

Max(S) == CHOOSE x \in S : \A y \in S : x >= y

\* s[i:] of Go with 1-based i: the characters from position i on.
From(s, i) == SubSeq(s, i, Len(s))

\* Whether p occurs in s starting at position i.
HasPrefixAt(s, i, p) ==
    /\ i >= 1
    /\ i + Len(p) - 1 <= Len(s)
    /\ SubSeq(s, i, i + Len(p) - 1) = p

\* strings.HasSuffix
HasSuffix(s, suf) == Len(suf) <= Len(s) /\ From(s, Len(s) - Len(suf) + 1) = suf

\* The first position >= i at which p occurs in s, 0 when there is none.
IndexFrom(s, i, p) ==
    LET js == {j \in i..Len(s) : HasPrefixAt(s, j, p)}
    IN  IF js = {} THEN 0 ELSE Min(js)

\* strings.Contains
Contains(s, p) == p = Empty \/ IndexFrom(s, 1, p) # 0

\* strings.Replace(s, old, new, 1): the first occurrence only.
ReplaceFirst(s, old, new) ==
    LET j == IndexFrom(s, 1, old)
    IN  IF j = 0 THEN s
        ELSE SubSeq(s, 1, j - 1) \o new \o From(s, j + Len(old))

UpperLetters ==
    <<"A", "B", "C", "D", "E", "F", "G", "H", "I", "J", "K", "L", "M",
      "N", "O", "P", "Q", "R", "S", "T", "U", "V", "W", "X", "Y", "Z">>

LowerLetters ==
    <<"a", "b", "c", "d", "e", "f", "g", "h", "i", "j", "k", "l", "m",
      "n", "o", "p", "q", "r", "s", "t", "u", "v", "w", "x", "y", "z">>

ToLowerChar(c) ==
    IF \E i \in DOMAIN UpperLetters : UpperLetters[i] = c
    THEN LowerLetters[CHOOSE i \in DOMAIN UpperLetters : UpperLetters[i] = c]
    ELSE c

\* strings.ToLower
ToLower(s) == [i \in 1..Len(s) |-> ToLowerChar(s[i])]

\* The white space of regexp's \s and of strings.TrimSpace.
IsSpace(c) == c \in {" ", "\t", "\n", "\r", "\f"}

\* The first position >= i of s that holds no white space (Len(s)+1 at the end).
SkipSpace(s, i) ==
    LET js == {j \in i..Len(s) : ~IsSpace(s[j])}
    IN  IF js = {} THEN Len(s) + 1 ELSE Min(js)

\* strings.TrimSpace
TrimSpace(s) ==
    LET js == {j \in 1..Len(s) : ~IsSpace(s[j])}
    IN  IF js = {} THEN Empty ELSE SubSeq(s, Min(js), Max(js))

RECURSIVE Concat(_)
\* The concatenation of a sequence of strings.
Concat(ss) == IF ss = << >> THEN Empty ELSE Head(ss) \o Concat(Tail(ss))

RECURSIVE JoinWith(_, _)
\* strings.Join(ss, sep)
JoinWith(ss, sep) ==
    IF ss = << >> THEN Empty
    ELSE IF Len(ss) = 1 THEN ss[1]
    ELSE ss[1] \o sep \o JoinWith(Tail(ss), sep)

RECURSIVE SelectSeqOf(_, _, _)
\* The elements of ss, in order, that satisfy Test.
SelectSeqOf(ss, Test(_), i) ==
    IF i > Len(ss) THEN << >>
    ELSE (IF Test(ss[i]) THEN <<ss[i]>> ELSE << >>) \o SelectSeqOf(ss, Test, i + 1)

----------------------------------------------------------------------------
(* path/filepath on a Unix build: the separator is "/" *)

Separator == "/"

Dot == <<".">>

DotDot == <<".", ".">>

RECURSIVE SplitSep(_)
\* The elements of a path between its separators (empty ones included).
SplitSep(p) ==
    LET j == IndexFrom(p, 1, <<Separator>>)
    IN  IF j = 0 THEN <<p>>
        ELSE <<SubSeq(p, 1, j - 1)>> \o SplitSep(From(p, j + 1))

\* filepath.IsAbs
IsAbs(p) == Len(p) >= 1 /\ p[1] = Separator

RECURSIVE CleanElems(_, _, _)
\* filepath.Clean's pass over the elements: empty and "." elements are dropped,
\* ".." removes the element before it, is kept at the head of a relative path
\* and is dropped at the root.
CleanElems(elems, rooted, out) ==
    IF elems = << >> THEN out
    ELSE LET e == Head(elems)
             rest == Tail(elems)
         IN  IF e = Empty \/ e = Dot THEN CleanElems(rest, rooted, out)
             ELSE IF e = DotDot
                  THEN IF out # << >> /\ out[Len(out)] # DotDot
                       THEN CleanElems(rest, rooted, SubSeq(out, 1, Len(out) - 1))
                       ELSE IF ~rooted
                            THEN CleanElems(rest, rooted, Append(out, DotDot))
                            ELSE CleanElems(rest, rooted, out)
                  ELSE CleanElems(rest, rooted, Append(out, e))

\* filepath.Clean
\* The cleaned path of the kept elements joined as body.
CleanBody(rooted, body) ==
    IF rooted THEN <<Separator>> \o body
    ELSE IF body = Empty THEN Dot ELSE body

Clean(p) ==
    IF p = Empty THEN Dot
    ELSE CleanBody(IsAbs(p),
                   JoinWith(CleanElems(SplitSep(p), IsAbs(p), << >>), <<Separator>>))

\* filepath.Join: empty elements are ignored, the rest joined and cleaned.
JoinKept(kept) == IF kept = << >> THEN Empty ELSE Clean(JoinWith(kept, <<Separator>>))

Join(elems) == JoinKept(SelectSeqOf(elems, LAMBDA e : e # Empty, 1))

\* The process's working directory, which filepath.Abs and getBaseOutputDir
\* resolve relative paths against.
Cwd == <<"/", "w", "o", "r", "k">>

\* filepath.Abs
Abs(p) == IF IsAbs(p) THEN Clean(p) ELSE Join(<<Cwd, p>>)

\* The position of the last separator of p, 0 when it has none.
LastSep(p) ==
    LET js == {j \in 1..Len(p) : p[j] = Separator}
    IN  IF js = {} THEN 0 ELSE Max(js)

\* filepath.Dir: all but the last element, cleaned.
Dir(p) == Clean(SubSeq(p, 1, LastSep(p)))

RECURSIVE StripTrailingSep(_)
StripTrailingSep(p) ==
    IF p # Empty /\ p[Len(p)] = Separator
    THEN StripTrailingSep(SubSeq(p, 1, Len(p) - 1))
    ELSE p

\* filepath.Base: the last element; "." for "", "/" for a path of separators.
BaseOf(q) == IF q = Empty THEN <<Separator>> ELSE From(q, LastSep(q) + 1)

Base(p) == IF p = Empty THEN Dot ELSE BaseOf(StripTrailingSep(p))

\* filepath.Ext: the suffix of the last element from its last dot, "" without one.
Ext(p) ==
    LET js == {j \in (LastSep(p) + 1)..Len(p) : p[j] = "."}
    IN  IF js = {} THEN Empty ELSE From(p, Max(js))

\* The number of leading elements two element lists share.
CommonLen(bs, ts) ==
    LET ks == {k \in 0..Min({Len(bs), Len(ts)}) : SubSeq(bs, 1, k) = SubSeq(ts, 1, k)}
    IN  Max(ks)

\* The elements of a cleaned path ("." and "/" have none).
Elems(p) ==
    IF p = Dot THEN << >>
    ELSE SelectSeqOf(SplitSep(p), LAMBDA e : e # Empty, 1)

\* filepath.Rel(basepath, targpath): [err, path]. It fails when exactly one of the
\* two is absolute and when base keeps a ".." that targ does not share.
\* Rel on the cleaned paths base and targ, their elements bs and ts, and the
\* number k of leading elements they share: a ".." per remaining element of
\* base, then the remaining elements of targ.
RelElems(base, targ, bs, ts, k) ==
    IF targ = base THEN [err |-> FALSE, path |-> Dot]
    ELSE IF IsAbs(base) # IsAbs(targ) THEN [err |-> TRUE, path |-> Empty]
    ELSE IF k < Len(bs) /\ bs[k + 1] = DotDot THEN [err |-> TRUE, path |-> Empty]
    ELSE [err |-> FALSE,
          path |-> JoinWith([i \in 1..(Len(bs) - k) |-> DotDot]
                            \o SubSeq(ts, k + 1, Len(ts)), <<Separator>>)]

RelSplit(base, targ, bs, ts) == RelElems(base, targ, bs, ts, CommonLen(bs, ts))

RelClean(base, targ) == RelSplit(base, targ, Elems(base), Elems(targ))

Rel(basepath, targpath) == RelClean(Clean(basepath), Clean(targpath))

----------------------------------------------------------------------------
(* encoding/xml as NewResource uses it: the nodes of a manifest *)

TagOpen == "<"

TagClose == ">"

CommentOpen == <<"<", "!", "-", "-">>

CommentClose == <<"-", "-", ">">>

\* The end (last position) of the node that starts at position i of text: a
\* comment runs to its "-->", a tag to its ">"; 0 when it is not closed.
NodeEnd(text, i) ==
    IF HasPrefixAt(text, i, CommentOpen)
    THEN LET j == IndexFrom(text, i + Len(CommentOpen), CommentClose)
         IN  IF j = 0 THEN 0 ELSE j + Len(CommentClose) - 1
    ELSE IndexFrom(text, i, <<TagClose>>)

RECURSIVE NodesFrom(_, _)
\* The comments and tags of text from position i on, each as its own text.
NodesFrom(text, i) ==
    LET s == IndexFrom(text, i, <<TagOpen>>)
    IN  IF s = 0 THEN << >>
        ELSE LET e == NodeEnd(text, s)
             IN  IF e = 0 THEN <<From(text, s)>>
                 ELSE <<SubSeq(text, s, e)>> \o NodesFrom(text, e + 1)

Nodes(text) == NodesFrom(text, 1)

IsComment(node) == HasPrefixAt(node, 1, CommentOpen)

\* The name of a tag: the characters after "<" up to white space, "/" or ">"
\* (a closing tag keeps its leading "/").
TagName(node) ==
    LET js == {j \in 3..Len(node) : IsSpace(node[j]) \/ node[j] \in {"/", TagClose}}
    IN  IF IsComment(node) \/ js = {} THEN Empty ELSE SubSeq(node, 2, Min(js) - 1)

\* Whether a node is the start tag of an element with this name.
IsElement(node, name) == ~IsComment(node) /\ TagName(node) = name

\* The value of attribute attr of a start tag, "" when the tag has none: the
\* name after white space, "=", and the text between the quotes that follow.
AttrValue(node, attr) ==
    LET starts == {j \in 2..Len(node) :
                     /\ IsSpace(node[j - 1])
                     /\ HasPrefixAt(node, j, attr)
                     /\ LET q == SkipSpace(node, j + Len(attr))
                        IN  /\ q <= Len(node)
                            /\ node[q] = "="
                            /\ SkipSpace(node, q + 1) <= Len(node)
                            /\ node[SkipSpace(node, q + 1)] \in {"\"", "'"}}
    IN  IF starts = {} THEN Empty
        ELSE LET j == Min(starts)
                 o == SkipSpace(node, SkipSpace(node, j + Len(attr)) + 1)
                 c == IndexFrom(node, o + 1, <<node[o]>>)
             IN  IF c = 0 THEN Empty ELSE SubSeq(node, o + 1, c - 1)

MetaName == <<"m", "e", "t", "a">>

MetaEndTag == <<"<", "/", "m", "e", "t", "a", ">">>

ScriptName == <<"s", "c", "r", "i", "p", "t">>

MapName == <<"m", "a", "p">>

FileName == <<"f", "i", "l", "e">>

ConfigName == <<"c", "o", "n", "f", "i", "g">>

HtmlName == <<"h", "t", "m", "l">>

SrcAttr == <<"s", "r", "c">>

TypeAttr == <<"t", "y", "p", "e">>

\* Whether xml.Unmarshal accepts the text: a meta root element that is closed.
\* (The manifests of the model are otherwise well formed.)
ParsesTags(tags) ==
    /\ tags # << >>
    /\ IsElement(tags[1], MetaName)
    /\ \/ /\ Len(tags) = 1
          /\ HasSuffix(tags[1], <<"/", TagClose>>)
       \/ /\ Len(tags) > 1
          /\ tags[Len(tags)] = MetaEndTag

Parses(text) == ParsesTags(SelectSeqOf(Nodes(text), LAMBDA n : ~IsComment(n), 1))

\* The Src (and Type) attributes of the elements called name, in document order.
ElementsOf(found) ==
    [i \in 1..Len(found) |->
        [Src |-> AttrValue(found[i], SrcAttr), Type |-> AttrValue(found[i], TypeAttr)]]

ElementsNamed(text, name) ==
    ElementsOf(SelectSeqOf(Nodes(text), LAMBDA n : IsElement(n, name), 1))

\* The fields of the Meta structure, from the elements found for each name.
MetaOf(elements) ==
    [Scripts |-> elements[ScriptName],
     Maps    |-> elements[MapName],
     Files   |-> elements[FileName],
     Configs |-> elements[ConfigName],
     HTMLs   |-> elements[HtmlName]]

\* xml.Unmarshal(data, &meta): the Meta structure of a manifest.
Unmarshal(text) ==
    MetaOf([name \in {ScriptName, MapName, FileName, ConfigName, HtmlName} |->
               ElementsNamed(text, name)])

----------------------------------------------------------------------------
(* The file catalogue *)

ReferenceTypeScript == "Script"

\* One category of GetAllFiles: a FileReference per element, in document order.
RefsOf(elems, baseDir, refType) ==
    [i \in 1..Len(elems) |->
        [FullPath      |-> Join(<<baseDir, elems[i].Src>>),
         ReferenceType |-> refType,
         RelativePath  |-> elems[i].Src]]

\* The categories in an order that has the files before the configs.
CategoriesFilesFirst(meta) ==
    << <<meta.Scripts, ReferenceTypeScript>>, <<meta.Maps, "Map">>,
       <<meta.Files, "File">>, <<meta.Configs, "Config">>, <<meta.HTMLs, "HTML">> >>

\* GetAllFiles(meta, metaXMLPath)
\* The categories of GetAllFiles in its order: scripts, maps, configs, files, html.
Categories(meta) ==
    << <<meta.Scripts, ReferenceTypeScript>>, <<meta.Maps, "Map">>,
       <<meta.Configs, "Config">>, <<meta.Files, "File">>, <<meta.HTMLs, "HTML">> >>

GetAllFilesIn(categories, baseDir) ==
    Concat([c \in 1..Len(categories) |->
               RefsOf(categories[c][1], baseDir, categories[c][2])])

GetAllFiles(meta, metaXMLPath) == GetAllFilesIn(Categories(meta), Dir(metaXMLPath))

\* NewResource(metaXMLPath), once the manifest is read and parsed.
ResourceOf(absPath, baseDir, meta) ==
    [MetaXMLPath |-> absPath,
     BaseDir     |-> baseDir,
     Name        |-> Base(baseDir),
     Meta        |-> meta,
     Files       |-> GetAllFiles(meta, absPath)]

ResourceAt(absPath, text) == ResourceOf(absPath, Dir(absPath), Unmarshal(text))

NewResource(metaXMLPath, text) == ResourceAt(Abs(metaXMLPath), text)

DotLua == <<".", "l", "u", "a">>

DotLuac == <<".", "l", "u", "a", "c">>

\* The test both script selections apply to a path.
IsLuaExt(p) == ToLower(Ext(p)) = DotLua

\* GetLuaFiles: the Script references whose extension is .lua in any letter case.
GetLuaFiles(r) ==
    SelectSeqOf(r.Files,
                LAMBDA f : f.ReferenceType = ReferenceTypeScript /\ IsLuaExt(f.FullPath), 1)

\* The bucket of a declared type when a script of no known type counts as shared.
BucketOfSharedDefault(type) ==
    IF ToLower(type) = <<"c", "l", "i", "e", "n", "t">> THEN "client"
    ELSE IF ToLower(type) = <<"s", "e", "r", "v", "e", "r">> THEN "server"
    ELSE "shared"

\* The bucket GetLuaFilesByType puts a declared type in.
BucketOf(type) ==
    LET t == ToLower(type)
    IN  IF t = <<"c", "l", "i", "e", "n", "t">> THEN "client"
        ELSE IF t = <<"s", "e", "r", "v", "e", "r">> THEN "server"
        ELSE IF t = <<"s", "h", "a", "r", "e", "d">> THEN "shared"
        ELSE "server"

\* One bucket of GetLuaFilesByType, in the order of r.Meta.Scripts.
Bucket(r, bucket) ==
    RefsOf(SelectSeqOf(r.Meta.Scripts,
                       LAMBDA s : IsLuaExt(s.Src) /\ BucketOf(s.Type) = bucket, 1),
           r.BaseDir, ReferenceTypeScript)

\* GetLuaFilesByType
GetLuaFilesByType(r) == [bucket \in {"client", "server", "shared"} |-> Bucket(r, bucket)]

\* getNonScriptFiles
getNonScriptFiles(r) ==
    SelectSeqOf(r.Files, LAMBDA f : f.ReferenceType # ReferenceTypeScript, 1)

----------------------------------------------------------------------------
(* Output-path resolution *)

\* getBaseOutputDir
getBaseOutputDir(r, outputFile) ==
    IF outputFile # Empty
    THEN IF IsAbs(outputFile) THEN outputFile ELSE Join(<<Cwd, outputFile>>)
    ELSE r.BaseDir

\* generateOutputFilename: the base name with a final .lua made .luac.
luacName(baseName) ==
    IF Ext(baseName) = DotLua
    THEN SubSeq(baseName, 1, Len(baseName) - 4) \o DotLuac
    ELSE baseName

generateOutputFilename(relativePath) == luacName(Base(relativePath))

\* buildFullRelativeDir
buildFullRelativeDir(relativeFromInput, relativeDir) ==
    IF relativeFromInput # Empty /\ relativeFromInput # Dot
    THEN IF relativeDir = Dot THEN relativeFromInput
         ELSE Join(<<relativeFromInput, relativeDir>>)
    ELSE relativeDir

\* calculateOutputPathWithCustomDir: [err, path]
\* The path under baseOutputDir of a name in directory dir, which is skipped
\* when it is one of the skipped values.
joinUnder(baseOutputDir, dir, skipped, name) ==
    IF dir \in skipped THEN Join(<<baseOutputDir, name>>)
    ELSE Join(<<baseOutputDir, dir, name>>)

\* A path computed from the result rel of filepath.Rel: [err, path], the error
\* being Rel's.
afterRel(rel, path) ==
    IF rel.err THEN [err |-> TRUE, path |-> Empty] ELSE [err |-> FALSE, path |-> path]

\* calculateOutputPathWithCustomDir, given relativeFromInput as rel.
calculateOutputPathFromInput(rel, baseOutputDir, fileRef, baseName) ==
    afterRel(rel, joinUnder(baseOutputDir,
                            buildFullRelativeDir(rel.path, Dir(fileRef.RelativePath)),
                            {Dot, Empty}, baseName))

calculateOutputPathWithCustomDir(r, absInputPath, baseOutputDir, fileRef, baseName) ==
    calculateOutputPathFromInput(Rel(absInputPath, r.BaseDir), baseOutputDir, fileRef, baseName)

\* calculateOutputPathSameStructure
calculateOutputPathSameStructure(baseOutputDir, fileRef, baseName) ==
    joinUnder(baseOutputDir, Dir(fileRef.RelativePath), {Dot}, baseName)

\* calculateOutputPath: the output path of a script, [err, path]
calculateOutputPath(r, absInputPath, outputFile, baseOutputDir, fileRef) ==
    IF outputFile # Empty
    THEN calculateOutputPathWithCustomDir(r, absInputPath, baseOutputDir, fileRef,
                                          generateOutputFilename(fileRef.RelativePath))
    ELSE [err |-> FALSE,
          path |-> calculateOutputPathSameStructure(baseOutputDir, fileRef,
                       generateOutputFilename(fileRef.RelativePath))]

\* calculateFileOutputPathWithCustomDir, given relativeFromInput as rel.
fullRelativePath(relativeFromInput, fileRef) ==
    IF relativeFromInput # Empty /\ relativeFromInput # Dot
    THEN Join(<<relativeFromInput, fileRef.RelativePath>>)
    ELSE fileRef.RelativePath

calculateFileOutputPathFromInput(rel, baseOutputDir, fileRef) ==
    afterRel(rel, Join(<<baseOutputDir, fullRelativePath(rel.path, fileRef)>>))

calculateFileOutputPathWithCustomDir(r, absInputPath, baseOutputDir, fileRef) ==
    calculateFileOutputPathFromInput(Rel(absInputPath, r.BaseDir), baseOutputDir, fileRef)

\* calculateFileOutputPath: the output path of a non-script file, [err, path]
calculateFileOutputPath(r, absInputPath, outputFile, baseOutputDir, fileRef) ==
    IF outputFile # Empty
    THEN calculateFileOutputPathWithCustomDir(r, absInputPath, baseOutputDir, fileRef)
    ELSE [err |-> FALSE, path |-> Join(<<baseOutputDir, fileRef.RelativePath>>)]

MetaXmlName == <<"m", "e", "t", "a", ".", "x", "m", "l">>

\* The output path copyMetaFile and copyMergedMetaFile give the manifest: [err, path]
metaOutputPathFromInput(rel, baseOutputDir) ==
    afterRel(rel, joinUnder(baseOutputDir, rel.path, {Dot, Empty}, MetaXmlName))

metaOutputPath(r, baseOutputDir, absInputPath, outputFile) ==
    IF outputFile # Empty
    THEN metaOutputPathFromInput(Rel(absInputPath, r.BaseDir), baseOutputDir)
    ELSE [err |-> FALSE, path |-> Join(<<baseOutputDir, MetaXmlName>>)]

ClientLuac == <<"c", "l", "i", "e", "n", "t", ".", "l", "u", "a", "c">>

ServerLuac == <<"s", "e", "r", "v", "e", "r", ".", "l", "u", "a", "c">>

\* The output path compileMerged gives a merged unit (client.luac or server.luac).
mergedOutputPathFromInput(rel, baseOutputDir, unitName) ==
    IF ~rel.err /\ rel.path # Empty /\ rel.path # Dot
    THEN Join(<<baseOutputDir, rel.path, unitName>>)
    ELSE Join(<<baseOutputDir, unitName>>)

mergedOutputPath(r, baseOutputDir, absInputPath, outputFile, unitName) ==
    IF outputFile # Empty
    THEN mergedOutputPathFromInput(Rel(absInputPath, r.BaseDir), baseOutputDir, unitName)
    ELSE Join(<<baseOutputDir, unitName>>)

----------------------------------------------------------------------------
(* Manifest rewriting *)

Quote == "\""

Apostrophe == "'"

\* The end of the match of luaToLuacRegex,
\*   (src\s*=\s*"[^"]*?)\.lua(")|(src\s*=\s*'[^']*?)\.lua(')
\* that starts at position i of text, 0 when none starts there: "src", "=", an
\* opening quote, and a value that reaches its closing quote with ".lua".
luaToLuacMatchEnd(text, i) ==
    LET a == SkipSpace(text, i + Len(SrcAttr))
        b == SkipSpace(text, a + 1)
        c == IndexFrom(text, b + 1, <<text[b]>>)
    IN  IF /\ HasPrefixAt(text, i, SrcAttr)
           /\ a <= Len(text) /\ text[a] = "="
           /\ b <= Len(text) /\ text[b] \in {Quote, Apostrophe}
           /\ c # 0
           /\ HasSuffix(SubSeq(text, b + 1, c - 1), DotLua)
        THEN c
        ELSE 0

\* The replacement made at the first ".lua" of the match.
luaToLuacReplaceFirstLua(match) == ReplaceFirst(match, DotLua, DotLuac)

\* The function copyAndModifyMetaFile hands to ReplaceAllStringFunc.
luaToLuacReplace(match) ==
    IF Contains(match, <<Quote>>)
    THEN ReplaceFirst(match, DotLua \o <<Quote>>, DotLuac \o <<Quote>>)
    ELSE ReplaceFirst(match, DotLua \o <<Apostrophe>>, DotLuac \o <<Apostrophe>>)

RECURSIVE luaToLuacReplaceAll(_, _), luaToLuacReplaceAt(_, _, _),
          luaToLuacReplaceMatch(_, _, _, _)
\* luaToLuacRegex.ReplaceAllStringFunc from position i on: the matches are taken
\* left to right and do not overlap.
luaToLuacReplaceAll(text, i) ==
    luaToLuacReplaceAt(text, i, IndexFrom(text, i, SrcAttr))

\* The same with j the next position of "src" (0 when there is none): its match,
\* if one starts there, is replaced and the search goes on behind it.
luaToLuacReplaceAt(text, i, j) ==
    IF j = 0 THEN From(text, i)
    ELSE luaToLuacReplaceMatch(text, i, j, luaToLuacMatchEnd(text, j))

\* The same with e the end of the match that starts at j (0 when none does).
luaToLuacReplaceMatch(text, i, j, e) ==
    IF e = 0 THEN SubSeq(text, i, j) \o luaToLuacReplaceAll(text, j + 1)
    ELSE SubSeq(text, i, j - 1)
         \o luaToLuacReplace(SubSeq(text, j, e))
         \o luaToLuacReplaceAll(text, e + 1)

\* copyAndModifyMetaFile: the content written for content read.
copyAndModifyMetaFile(content) == luaToLuacReplaceAll(content, 1)

ScriptStart == <<"<", "s", "c", "r", "i", "p", "t">>

ScriptEndTag == <<"<", "/", "s", "c", "r", "i", "p", "t", ">">>

\* The end of the match of scriptRegex, (?s)<script[^>]*(?:/>|>.*?</script>), that
\* starts at position i, 0 when none starts there. [^>]* is greedy, so the first
\* try is the whole run up to the first ">" followed by the nearest "</script>"
\* anywhere after it; only without one does the run give back its "/" for "/>".
scriptMatchEnd(text, i) ==
    LET g == IndexFrom(text, i + Len(ScriptStart), <<TagClose>>)
        h == IndexFrom(text, g + 1, ScriptEndTag)
    IN  IF ~HasPrefixAt(text, i, ScriptStart) \/ g = 0 THEN 0
        ELSE IF h # 0 THEN h + Len(ScriptEndTag) - 1
        ELSE IF g - 1 >= i + Len(ScriptStart) /\ text[g - 1] = "/" THEN g
        ELSE 0

RECURSIVE removeScripts(_, _)
\* scriptRegex.ReplaceAllString(content, "") from position i on.
removeScripts(text, i) ==
    LET j == IndexFrom(text, i, ScriptStart)
        e == scriptMatchEnd(text, j)
    IN  IF j = 0 THEN From(text, i)
        ELSE IF e = 0 THEN SubSeq(text, i, j) \o removeScripts(text, j + 1)
        ELSE SubSeq(text, i, j - 1) \o removeScripts(text, e + 1)

ClientScriptTag == <<" ", " ", " ", " ", "<", "s", "c", "r", "i", "p", "t", " ", "s", "r", "c", "=", "\"", "c", "l", "i", "e", "n", "t", ".", "l", "u", "a", "c", "\"", " ", "t", "y", "p", "e", "=", "\"", "c", "l", "i", "e", "n", "t", "\"", " ", "c", "a", "c", "h", "e", "=", "\"", "t", "r", "u", "e", "\"", " ", "/", ">">>

ServerScriptTag == <<" ", " ", " ", " ", "<", "s", "c", "r", "i", "p", "t", " ", "s", "r", "c", "=", "\"", "s", "e", "r", "v", "e", "r", ".", "l", "u", "a", "c", "\"", " ", "t", "y", "p", "e", "=", "\"", "s", "e", "r", "v", "e", "r", "\"", " ", "c", "a", "c", "h", "e", "=", "\"", "t", "r", "u", "e", "\"", " ", "/", ">">>

NewLine == "\n"

\* The replacement script tags of copyAndModifyMergedMetaFile.
scriptTags(hasClientFiles, hasServerFiles) ==
    (IF hasClientFiles THEN <<ClientScriptTag>> ELSE << >>)
    \o (IF hasServerFiles THEN <<ServerScriptTag>> ELSE << >>)

\* The start of the match of metaEndRegex, (\s*</meta>), for the "</meta>" at
\* position m when the search began at position i: the white space before it.
metaEndMatchStart(text, i, m) ==
    Min({s \in i..m : \A k \in s..(m - 1) : IsSpace(text[k])})

RECURSIVE insertBeforeMetaEnd(_, _, _)
\* metaEndRegex.ReplaceAllString(content, replacement) from position i on, the
\* replacement being `insert` followed by the match ($1).
insertBeforeMetaEnd(text, i, insert) ==
    LET m == IndexFrom(text, i, MetaEndTag)
        s == metaEndMatchStart(text, i, m)
        e == m + Len(MetaEndTag) - 1
    IN  IF m = 0 THEN From(text, i)
        ELSE SubSeq(text, i, s - 1) \o insert \o SubSeq(text, s, e)
             \o insertBeforeMetaEnd(text, e + 1, insert)

MetaStart == <<"<", "m", "e", "t", "a">>

\* The match of metaSelfClosingRegex, (<meta[^>]*)/>\s*$: [start, close] with
\* close the position of its "/", or start 0 when there is none.
metaSelfClosingMatch(text) ==
    LET starts == {i \in 1..Len(text) :
                     /\ HasPrefixAt(text, i, MetaStart)
                     /\ LET g == IndexFrom(text, i + Len(MetaStart), <<TagClose>>)
                        IN  /\ g # 0
                            /\ g - 1 >= i + Len(MetaStart)
                            /\ text[g - 1] = "/"
                            /\ SkipSpace(text, g + 1) = Len(text) + 1}
    IN  IF starts = {} THEN [start |-> 0, close |-> 0]
        ELSE [start |-> Min(starts),
              close |-> IndexFrom(text, Min(starts) + Len(MetaStart), <<TagClose>>) - 1]

\* strings.Join(scriptTags, "\n") + "\n", and "" when there are no tags.
tagLines(tags) ==
    IF tags # << >> THEN JoinWith(tags, <<NewLine>>) \o <<NewLine>> ELSE Empty

\* The insertion of the tags into the content left without scripts, sc being
\* the match of metaSelfClosingRegex in it: before every "</meta>"; else in
\* place of the "/>" of a self-closing meta; else at the end of the content.
insertScriptTagsAt(modified, tags, sc) ==
    IF Contains(modified, MetaEndTag)
    THEN insertBeforeMetaEnd(modified, 1, tagLines(tags))
    ELSE IF sc.start # 0
         THEN SubSeq(modified, 1, sc.close - 1) \o <<TagClose, NewLine>>
              \o tagLines(tags) \o MetaEndTag
         ELSE IF tags # << >>
              THEN TrimSpace(modified) \o <<NewLine>> \o tagLines(tags)
              ELSE modified

insertScriptTags(modified, tags) ==
    insertScriptTagsAt(modified, tags, metaSelfClosingMatch(modified))

\* copyAndModifyMergedMetaFile: the content written for the content read.
copyAndModifyMergedMetaFile(content, hasClientFiles, hasServerFiles) ==
    insertScriptTags(removeScripts(content, 1), scriptTags(hasClientFiles, hasServerFiles))

----------------------------------------------------------------------------
(* The manifests and the disk the model runs on *)

\* The elements and comments a manifest of the model is made of, in the order
\* they appear in it. Among them: a script per audience and an untyped one, a
\* source in a sub-directory, single quotes, an upper-case extension, ".lua"
\* inside a directory name, a script that is no .lua file, a script written
\* with a closing tag, a non-script file called .lua, a file of each other
\* category (an html page declared before a config file), an empty src, and
\* a comment that holds a script tag, and a script whose src ends in a slash.
Pool ==
    << <<"<", "i", "n", "c", "l", "u", "d", "e", " ", "r", "e", "s", "o", "u", "r", "c", "e", "=", "\"", "x", "\"", "/", ">">>,
       <<"<", "s", "c", "r", "i", "p", "t", " ", "s", "r", "c", "=", "\"", "s", "e", "r", "v", "e", "r", ".", "l", "u", "a", "\"", " ", "t", "y", "p", "e", "=", "\"", "s", "e", "r", "v", "e", "r", "\"", "/", ">">>,
       <<"<", "!", "-", "-", " ", "<", "s", "c", "r", "i", "p", "t", " ", "s", "r", "c", "=", "\"", "o", "l", "d", ".", "l", "u", "a", "\"", "/", ">", " ", "-", "-", ">">>,
       <<"<", "s", "c", "r", "i", "p", "t", " ", "s", "r", "c", "=", "'", "l", "i", "b", ".", "l", "u", "a", "/", "u", "t", "i", "l", ".", "l", "u", "a", "'", " ", "t", "y", "p", "e", "=", "\"", "s", "h", "a", "r", "e", "d", "\"", "/", ">">>,
       <<"<", "f", "i", "l", "e", " ", "s", "r", "c", "=", "\"", "d", "a", "t", "a", ".", "l", "u", "a", "\"", "/", ">">>,
       <<"<", "s", "c", "r", "i", "p", "t", " ", "s", "r", "c", "=", "\"", "o", "l", "d", ".", "l", "u", "a", "c", "\"", " ", "t", "y", "p", "e", "=", "\"", "c", "l", "i", "e", "n", "t", "\"", "/", ">">>,
       <<"<", "m", "a", "p", " ", "s", "r", "c", "=", "\"", "m", "a", "p", "s", "/", "a", ".", "m", "a", "p", "\"", "/", ">">>,
       <<"<", "s", "c", "r", "i", "p", "t", " ", "s", "r", "c", "=", "\"", "m", "a", "i", "n", ".", "L", "U", "A", "\"", "/", ">">>,
       <<"<", "h", "t", "m", "l", " ", "s", "r", "c", "=", "\"", "u", "i", "/", "p", "a", "g", "e", ".", "h", "t", "m", "l", "\"", "/", ">">>,
       <<"<", "c", "o", "n", "f", "i", "g", " ", "s", "r", "c", "=", "\"", "\"", "/", ">">>,
       <<"<", "s", "c", "r", "i", "p", "t", " ", "s", "r", "c", "=", "\"", "g", "u", "i", "/", "c", "l", "i", "e", "n", "t", ".", "l", "u", "a", "\"", " ", "t", "y", "p", "e", "=", "\"", "c", "l", "i", "e", "n", "t", "\"", ">", "<", "/", "s", "c", "r", "i", "p", "t", ">">>,
       <<"<", "s", "c", "r", "i", "p", "t", " ", "s", "r", "c", "=", "\"", "l", "i", "b", ".", "l", "u", "a", "/", "\"", "/", ">">> >>

\* The most elements and comments a manifest of the model holds.
MaxItems == 2

Indent == <<" ", " ", " ", " ">>

MetaStartTag == <<"<", "m", "e", "t", "a", ">">>

RECURSIVE RenderItems(_)
RenderItems(items) ==
    IF items = << >> THEN Empty
    ELSE Indent \o Pool[Head(items)] \o <<NewLine>> \o RenderItems(Tail(items))

\* The text of the manifest that holds the given elements of Pool.
Manifest(items) == MetaStartTag \o <<NewLine>> \o RenderItems(items) \o MetaEndTag

RECURSIVE Ascending(_, _)
\* The ascending sequences of at most n numbers from lo..Len(Pool).
Ascending(lo, n) ==
    IF n = 0 THEN {<< >>}
    ELSE {<< >>} \cup
         UNION {{<<i>> \o t : t \in Ascending(i + 1, n - 1)} : i \in lo..Len(Pool)}

\* The manifests of the model: up to MaxItems elements of Pool in Pool's order.
Manifests == {Manifest(items) : items \in Ascending(1, MaxItems)}

ResourcesDir == <<"/", "r", "e", "s", "o", "u", "r", "c", "e", "s">>

ResourceADir == <<"/", "r", "e", "s", "o", "u", "r", "c", "e", "s", "/", "g", "a", "m", "e", "s", "/", "r", "e", "s", "o", "u", "r", "c", "e", "_", "a">>

MetaA == <<"/", "r", "e", "s", "o", "u", "r", "c", "e", "s", "/", "g", "a", "m", "e", "s", "/", "r", "e", "s", "o", "u", "r", "c", "e", "_", "a", "/", "m", "e", "t", "a", ".", "x", "m", "l">>

MetaB == <<"/", "r", "e", "s", "o", "u", "r", "c", "e", "s", "/", "b", "/", "m", "e", "t", "a", ".", "x", "m", "l">>

OutDir == <<"/", "o", "u", "t">>

\* The manifest of the second resource of the tree (one server script and two
\* non-script files), and a text that xml.Unmarshal rejects.
ManifestB == Manifest(<<2, 5, 7>>)

Unparsable == <<"<", "m", "e", "t", "a", ">">>

\* The manifest files on the disk in the order filepath.Walk meets them: each
\* is readable or not and has a text.
DiskOf(textA, stateB) ==
    << [path |-> MetaB, readable |-> stateB # "unreadable",
        text |-> IF stateB = "unparsable" THEN Unparsable ELSE ManifestB],
       [path |-> MetaA, readable |-> TRUE, text |-> textA] >>

\* What the user may name as input: the tree of resources, the directory of one
\* resource, the manifest file of one resource.
InputPaths == {ResourcesDir, ResourceADir, MetaA}

\* The -o flag: unset, or an output root.
OutputFiles == {Empty, OutDir}

----------------------------------------------------------------------------
(* The state *)

VARIABLES
    inputPath,      \* the input path the user gave
    outputFile,     \* the -o flag ("" when unset)
    mergeMode,      \* the -m flag
    disk,           \* the manifest files on the disk, which a pass may overwrite
    pc,             \* where the run is
    metaPaths,      \* compileResources: the manifests to process
    idx,            \* compileResources: the index of the current manifest
    res,            \* the Resource of the current pass
    absInputPath,   \* the pass's absolute input path
    baseOutputDir,  \* the pass's base output directory
    k,              \* the index of the pass's current file (copy and compile loops)
    successCount,   \* the pass's counter of successful compilations
    errorCount,     \* the pass's counter of failed compilations
    copyResult,     \* the pass's FileCopyBatchResult
    metaOut,        \* the manifests the pass wrote: [path, text], with the text read
    calls,          \* the compiler invocations of the pass
    report,         \* what compileResources printed per manifest
    exitCode        \* the exit status of the process, -1 while it runs

vars == <<inputPath, outputFile, mergeMode, disk, pc, metaPaths, idx, res,
          absInputPath, baseOutputDir, k, successCount, errorCount, copyResult,
          metaOut, calls, report, exitCode>>

flags == <<inputPath, outputFile, mergeMode>>

config == <<flags, disk>>

NoResource == [MetaXMLPath |-> Empty, BaseDir |-> Empty, Name |-> Empty,
               Meta |-> Unmarshal(Empty), Files |-> << >>]

EmptyCopyResult == [Results |-> << >>, TotalFiles |-> 0, SuccessCount |-> 0, ErrorCount |-> 0]

Init ==
    /\ inputPath \in InputPaths
    /\ outputFile \in OutputFiles
    /\ mergeMode \in BOOLEAN
    /\ \E textA \in Manifests :
         \E stateB \in (IF inputPath = ResourcesDir
                        THEN {"good", "unreadable", "unparsable"} ELSE {"good"}) :
            disk = DiskOf(textA, stateB)
    /\ pc = "start"
    /\ metaPaths = << >>
    /\ idx = 0
    /\ res = NoResource
    /\ absInputPath = Empty
    /\ baseOutputDir = Empty
    /\ k = 0
    /\ successCount = 0
    /\ errorCount = 0
    /\ copyResult = EmptyCopyResult
    /\ metaOut = << >>
    /\ calls = << >>
    /\ report = << >>
    /\ exitCode = -1

----------------------------------------------------------------------------
(* compileResources: the batch driver *)

\* os.Stat(inputPath).IsDir(): the input is no file of the disk.
IsDir(p) == \A i \in DOMAIN disk : disk[i].path # Clean(p)

\* Whether path p lies in the tree under directory root.
IsPrefix(rs, ps) == Len(rs) <= Len(ps) /\ SubSeq(ps, 1, Len(rs)) = rs

IsUnder(root, p) == IsPrefix(Elems(Clean(root)), Elems(Clean(p)))

\* FindMTAResourceMetas: the meta.xml files under rootDir, in the walk's order.
AbsPaths(found) == [i \in 1..Len(found) |-> Abs(found[i].path)]

FindMTAResourceMetas(rootDir) ==
    AbsPaths(SelectSeqOf(disk,
                 LAMBDA f : IsUnder(rootDir, f.path)
                            /\ ToLower(Base(f.path)) = MetaXmlName, 1))

\* The manifests found are processed; without any the run ends with an error.
\* The head of compileResources: the input is a directory that is searched for
\* manifests, or a manifest file; anything else ends the run with an error.
Process(found) ==
    IF found = << >>
    THEN pc' = "done" /\ exitCode' = 1 /\ UNCHANGED <<metaPaths, idx>>
    ELSE pc' = "load" /\ metaPaths' = found /\ idx' = 1 /\ UNCHANGED exitCode

Discover ==
    /\ pc = "start"
    /\ IF IsDir(inputPath)
       THEN Process(FindMTAResourceMetas(inputPath))
       ELSE IF ToLower(Base(inputPath)) = MetaXmlName
            THEN Process(<<Abs(inputPath)>>)
            ELSE Process(<< >>)
    /\ UNCHANGED <<config, res, absInputPath, baseOutputDir, k, successCount,
                   errorCount, copyResult, metaOut, calls, report>>

\* The file of the disk at a path (the model's manifests are all on the disk).
FileAt(path) == disk[CHOOSE i \in DOMAIN disk : disk[i].path = path]

\* A loop that gives up the remaining manifests when a pass fails.
StopAtFailure(outcome) ==
    /\ report' = Append(report, [meta |-> metaPaths[idx], outcome |-> outcome])
    /\ idx' = IF outcome = "ok" THEN idx + 1 ELSE Len(metaPaths) + 1
    /\ pc' = "load"

\* What the loop of compileResources does when the pass of the current manifest
\* returns: it prints the outcome and goes on to the next manifest.
Continue(outcome) ==
    /\ report' = Append(report, [meta |-> metaPaths[idx], outcome |-> outcome])
    /\ idx' = idx + 1
    /\ pc' = "load"

\* The loop of compileResources at a manifest: NewResource reads and parses it;
\* a failure is printed and the loop continues, else the pass begins.
Load ==
    /\ pc = "load"
    /\ idx <= Len(metaPaths)
    /\ LET f == FileAt(metaPaths[idx])
       IN  IF f.readable /\ Parses(f.text)
           THEN /\ res' = NewResource(metaPaths[idx], f.text)
                /\ pc' = "compile"
                /\ UNCHANGED <<idx, report>>
           ELSE /\ Continue("load error")
                /\ res' = NoResource
    /\ absInputPath' = Empty
    /\ baseOutputDir' = Empty
    /\ k' = 0
    /\ successCount' = 0
    /\ errorCount' = 0
    /\ copyResult' = EmptyCopyResult
    /\ metaOut' = << >>
    /\ calls' = << >>
    /\ UNCHANGED <<config, metaPaths, exitCode>>

\* The end of compileResources: it returns nil and main exits with status 0.
Finish ==
    /\ pc = "load"
    /\ idx > Len(metaPaths)
    /\ pc' = "done"
    /\ exitCode' = 0
    /\ UNCHANGED <<config, metaPaths, idx, res, absInputPath, baseOutputDir, k,
                   successCount, errorCount, copyResult, metaOut, calls, report>>

----------------------------------------------------------------------------
(* CompileResource: the pass over one resource *)

\* The client unit without the shared files.
clientFilesOnly(r) == GetLuaFilesByType(r).client

\* compileMerged's two units: the client and the server files, each followed
\* by the shared files.
allClientFiles(r) == GetLuaFilesByType(r).client \o GetLuaFilesByType(r).shared

\* The server unit with its server and shared files in the order of the
\* manifest.
serverFilesInDocumentOrder(r) ==
    RefsOf(SelectSeqOf(r.Meta.Scripts,
                       LAMBDA s : IsLuaExt(s.Src) /\ BucketOf(s.Type) \in {"server", "shared"}, 1),
           r.BaseDir, ReferenceTypeScript)

allServerFiles(r) == GetLuaFilesByType(r).server \o GetLuaFilesByType(r).shared

\* The scripts the pass will compile, in the pass's mode.
HasNoScripts(r) ==
    IF mergeMode
    THEN Len(allClientFiles(r)) = 0 /\ Len(allServerFiles(r)) = 0
    ELSE Len(GetLuaFiles(r)) = 0

\* The head of compileIndividual and of compileMerged: a resource without Lua
\* scripts is left alone and the pass returns nil.
Begin ==
    /\ pc = "compile"
    /\ IF HasNoScripts(res)
       THEN Continue("ok")
       ELSE pc' = "resolve" /\ UNCHANGED <<idx, report>>
    /\ UNCHANGED <<config, metaPaths, res, absInputPath, baseOutputDir, k,
                   successCount, errorCount, copyResult, metaOut, calls, exitCode>>

\* The absolute input path and the base output directory, which MkdirAll
\* creates; its failure ends the pass.
Resolve ==
    /\ pc = "resolve"
    /\ absInputPath' = Abs(inputPath)
    /\ baseOutputDir' = getBaseOutputDir(res, outputFile)
    /\ \E ok \in BOOLEAN :
         IF ok
         THEN pc' = "meta" /\ UNCHANGED <<idx, report>>
         ELSE Continue("error")
    /\ UNCHANGED <<config, metaPaths, res, k, successCount, errorCount,
                   copyResult, metaOut, calls, exitCode>>

\* The text the pass writes as the output manifest.
RewrittenManifest(r) ==
    LET content == FileAt(r.MetaXMLPath).text
    IN  IF mergeMode
        THEN copyAndModifyMergedMetaFile(content, Len(allClientFiles(r)) > 0,
                                         Len(allServerFiles(r)) > 0)
        ELSE copyAndModifyMetaFile(content)

\* os.WriteFile(dst, modifiedContent): the file at dst has the text from now
\* on, also when dst is a manifest of the disk; content is the text read.
WriteFile(dst, content, text) ==
    /\ metaOut' = Append(metaOut, [path |-> dst, text |-> text, read |-> content])
    /\ disk' = [i \in DOMAIN disk |->
                   IF disk[i].path = dst THEN [disk[i] EXCEPT !.text = text] ELSE disk[i]]

\* copyMetaFile and copyMergedMetaFile: the manifest's output path, its
\* directory, and the rewritten text written there; any failure ends the pass.
WriteMeta(out) ==
    \E ok \in BOOLEAN :
      IF ok /\ ~out.err
      THEN /\ WriteFile(out.path, FileAt(res.MetaXMLPath).text, RewrittenManifest(res))
           /\ pc' = "copy"
           /\ k' = 1
           /\ UNCHANGED <<idx, report>>
      ELSE /\ Continue("error")
           /\ UNCHANGED <<metaOut, k, disk>>

CopyMetaFile ==
    /\ pc = "meta"
    /\ WriteMeta(metaOutputPath(res, baseOutputDir, absInputPath, outputFile))
    /\ UNCHANGED <<flags, metaPaths, res, absInputPath, baseOutputDir,
                   successCount, errorCount, copyResult, calls, exitCode>>

\* processSingleFile on one non-script file: its output path, the directory and
\* the copy. The result records success or the failure.
FileCopyResult(fileRef, out, ok) ==
    [RelativePath |-> fileRef.RelativePath,
     FullPath     |-> fileRef.FullPath,
     OutputPath   |-> IF out.err THEN Empty ELSE out.path,
     Success      |-> ok /\ ~out.err]

processSingleFile(r, fileRef, ok) ==
    FileCopyResult(fileRef,
        calculateFileOutputPath(r, absInputPath, outputFile, baseOutputDir, fileRef), ok)

\* The batch result with the result of one more file.
Collect(batch, totalFiles, result) ==
    [Results      |-> Append(batch.Results, result),
     TotalFiles   |-> totalFiles,
     SuccessCount |-> batch.SuccessCount + (IF result.Success THEN 1 ELSE 0),
     ErrorCount   |-> batch.ErrorCount + (IF result.Success THEN 0 ELSE 1)]

\* A loop over the non-script files that a failed copy ends.
CopyFileReferenceOrStop ==
    /\ pc = "copy"
    /\ k <= Len(getNonScriptFiles(res))
    /\ \E ok \in BOOLEAN :
         /\ copyResult' = Collect(copyResult, Len(getNonScriptFiles(res)),
                                  processSingleFile(res, getNonScriptFiles(res)[k], ok))
         /\ k' = IF ok THEN k + 1 ELSE Len(getNonScriptFiles(res)) + 1
    /\ UNCHANGED <<config, pc, metaPaths, idx, res, absInputPath, baseOutputDir,
                   successCount, errorCount, metaOut, calls, report, exitCode>>

\* One turn of the loop of copyFileReferences: a failed copy is counted and
\* the loop goes on with the next file.
CopyFileReference ==
    /\ pc = "copy"
    /\ k <= Len(getNonScriptFiles(res))
    /\ \E ok \in BOOLEAN :
         copyResult' = Collect(copyResult, Len(getNonScriptFiles(res)),
                               processSingleFile(res, getNonScriptFiles(res)[k], ok))
    /\ k' = k + 1
    /\ UNCHANGED <<config, pc, metaPaths, idx, res, absInputPath, baseOutputDir,
                   successCount, errorCount, metaOut, calls, report, exitCode>>

\* A copy step that is left for the compilation before its last file.
CopyLeftEarly ==
    /\ pc = "copy"
    /\ pc' = IF mergeMode THEN "client" ELSE "files"
    /\ k' = 1
    /\ copyResult' = [copyResult EXCEPT !.TotalFiles = Len(getNonScriptFiles(res))]
    /\ UNCHANGED <<config, metaPaths, idx, res, absInputPath, baseOutputDir,
                   successCount, errorCount, metaOut, calls, report, exitCode>>

\* The end of copyFileReferences: the pass goes on to the compilation.
CopyDone ==
    /\ pc = "copy"
    /\ k > Len(getNonScriptFiles(res))
    /\ pc' = IF mergeMode THEN "client" ELSE "files"
    /\ k' = 1
    /\ copyResult' = [copyResult EXCEPT !.TotalFiles = Len(getNonScriptFiles(res))]
    /\ UNCHANGED <<config, metaPaths, idx, res, absInputPath, baseOutputDir,
                   successCount, errorCount, metaOut, calls, report, exitCode>>

\* What a compilation step may meet: success, a directory that cannot be
\* created (the compiler is not run), a failing compiler.
Outcomes == {"ok", "mkdir", "fail"}

\* One compiler invocation as the pass makes it.
Call(unit, refs, output, outcome) ==
    [unit |-> unit, refs |-> refs,
     inputs |-> [i \in 1..Len(refs) |-> refs[i].FullPath],
     output |-> output, ok |-> outcome = "ok"]

\* The compilation of one script to its output path out ([err, path]).
CompileTo(fileRef, out) ==
    IF out.err
    THEN errorCount' = errorCount + 1 /\ UNCHANGED <<successCount, calls>>
    ELSE \E outcome \in Outcomes :
           /\ calls' = IF outcome = "mkdir" THEN calls
                       ELSE Append(calls, Call("file", <<fileRef>>, out.path, outcome))
           /\ successCount' = successCount + (IF outcome = "ok" THEN 1 ELSE 0)
           /\ errorCount' = errorCount + (IF outcome = "ok" THEN 0 ELSE 1)

\* A loop over the scripts that a failure ends.
CompileFileOrStop ==
    /\ pc = "files"
    /\ k <= Len(GetLuaFiles(res))
    /\ CompileTo(GetLuaFiles(res)[k],
                 calculateOutputPath(res, absInputPath, outputFile, baseOutputDir,
                                     GetLuaFiles(res)[k]))
    /\ k' = IF errorCount' > errorCount THEN Len(GetLuaFiles(res)) + 1 ELSE k + 1
    /\ UNCHANGED <<config, pc, metaPaths, idx, res, absInputPath, baseOutputDir,
                   copyResult, metaOut, report, exitCode>>

\* One turn of the loop of compileIndividual: the script's output path, its
\* directory, the compiler; a failure is counted and the loop goes on.
CompileFile ==
    /\ pc = "files"
    /\ k <= Len(GetLuaFiles(res))
    /\ CompileTo(GetLuaFiles(res)[k],
                 calculateOutputPath(res, absInputPath, outputFile, baseOutputDir,
                                     GetLuaFiles(res)[k]))
    /\ k' = k + 1
    /\ UNCHANGED <<config, pc, metaPaths, idx, res, absInputPath, baseOutputDir,
                   copyResult, metaOut, report, exitCode>>

\* One unit of compileMerged: skipped when it has no files, else its output
\* path, the directory and one compiler invocation on all its files.
CompileUnit(unit, files, unitName) ==
    IF Len(files) = 0
    THEN UNCHANGED <<successCount, errorCount, calls>>
    ELSE \E outcome \in Outcomes :
           /\ calls' = IF outcome = "mkdir" THEN calls
                       ELSE Append(calls,
                              Call(unit, files,
                                   mergedOutputPath(res, baseOutputDir, absInputPath,
                                                    outputFile, unitName), outcome))
           /\ successCount' = successCount + (IF outcome = "ok" THEN 1 ELSE 0)
           /\ errorCount' = errorCount + (IF outcome = "ok" THEN 0 ELSE 1)

\* A client step after whose failure the server unit is not attempted.
CompileClientOrGiveUp ==
    /\ pc = "client"
    /\ CompileUnit("client", allClientFiles(res), ClientLuac)
    /\ pc' = IF errorCount' > errorCount THEN "summary" ELSE "server"
    /\ UNCHANGED <<config, metaPaths, idx, res, absInputPath, baseOutputDir, k,
                   copyResult, metaOut, report, exitCode>>

CompileClient ==
    /\ pc = "client"
    /\ CompileUnit("client", allClientFiles(res), ClientLuac)
    /\ pc' = "server"
    /\ UNCHANGED <<config, metaPaths, idx, res, absInputPath, baseOutputDir, k,
                   copyResult, metaOut, report, exitCode>>

CompileServer ==
    /\ pc = "server"
    /\ CompileUnit("server", allServerFiles(res), ServerLuac)
    /\ pc' = "summary"
    /\ UNCHANGED <<config, metaPaths, idx, res, absInputPath, baseOutputDir, k,
                   copyResult, metaOut, report, exitCode>>

\* The end of compileIndividual's loop.
FilesDone ==
    /\ pc = "files"
    /\ k > Len(GetLuaFiles(res))
    /\ pc' = "summary"
    /\ UNCHANGED <<config, metaPaths, idx, res, absInputPath, baseOutputDir, k,
                   successCount, errorCount, copyResult, metaOut, calls, report,
                   exitCode>>

\* An end of the pass that returns an error for a failed copy as well.
SummarizeCountingCopies ==
    /\ pc = "summary"
    /\ Continue(IF errorCount > 0 \/ copyResult.ErrorCount > 0 THEN "error" ELSE "ok")
    /\ UNCHANGED <<config, metaPaths, res, absInputPath, baseOutputDir, k,
                   successCount, errorCount, copyResult, metaOut, calls, exitCode>>

\* The end of the pass: an error is returned exactly when a compilation failed.
Summarize ==
    /\ pc = "summary"
    /\ Continue(IF errorCount > 0 THEN "error" ELSE "ok")
    /\ UNCHANGED <<config, metaPaths, res, absInputPath, baseOutputDir, k,
                   successCount, errorCount, copyResult, metaOut, calls, exitCode>>

Next ==
    \/ Discover
    \/ Load
    \/ Finish
    \/ Begin
    \/ Resolve
    \/ CopyMetaFile
    \/ CopyFileReference
    \/ CopyDone
    \/ CompileFile
    \/ FilesDone
    \/ CompileClient
    \/ CompileServer
    \/ Summarize

Spec == Init /\ [][Next]_vars

----------------------------------------------------------------------------
(* Observations of a run, which the properties below are stated with *)

\* The compiler invocations of the individual mode, one script each.
FileCalls == {i \in DOMAIN calls : calls[i].unit = "file"}

\* The results of the non-script copies.
Copies == DOMAIN copyResult.Results

\* The base name of a path without its extension.
Stem(p) == SubSeq(Base(p), 1, Len(Base(p)) - Len(Ext(Base(p))))

\* Path out is path src with nothing but the extension of the file name
\* changed: to .luac where a script is called .lua, not at all for a non-script.
OnlyExtensionChanged(src, out, isScript) ==
    /\ Dir(out) = Dir(src)
    /\ Stem(out) = Stem(src)
    /\ isScript /\ Ext(src) = DotLua => Ext(out) = DotLuac
    /\ ~isScript => out = src

\* A path taken relative to a root.
Relative(root, path) == Rel(Abs(root), path).path

----------------------------------------------------------------------------
(* Output paths under an output root *)

\* C1: with an output root and the resource's own manifest file as the input
\* path, every output of the resource lands directly under the output root: a
\* script in the directory its relative path names there, a non-script file at
\* its relative path, the manifest and the merged units in the root itself.
C1_SingleResourceUnderOutputRoot ==
    outputFile # Empty /\ ~IsDir(inputPath) =>
        /\ \A i \in FileCalls :
             Dir(calls[i].output)
               = Join(<<Abs(outputFile), Dir(calls[i].refs[1].RelativePath)>>)
        /\ \A i \in DOMAIN calls \ FileCalls : Dir(calls[i].output) = Abs(outputFile)
        /\ \A i \in Copies :
             copyResult.Results[i].OutputPath
               = Join(<<Abs(outputFile), copyResult.Results[i].RelativePath>>)
        /\ \A i \in DOMAIN metaOut : Dir(metaOut[i].path) = Abs(outputFile)

\* C2: with an output root and a directory as the input path, the output path
\* of every compiled script and of every copied non-script file, taken relative
\* to the output root, is the path of its source relative to the input root
\* with only the extension of the file name changed (.lua to .luac for a
\* script, nothing for a non-script).
C2_TreeShapePreserved ==
    outputFile # Empty /\ IsDir(inputPath) =>
        /\ \A i \in FileCalls :
             OnlyExtensionChanged(Relative(inputPath, calls[i].refs[1].FullPath),
                                  Relative(outputFile, calls[i].output), TRUE)
        /\ \A i \in Copies :
             OnlyExtensionChanged(Relative(inputPath, copyResult.Results[i].FullPath),
                                  Relative(outputFile, copyResult.Results[i].OutputPath),
                                  FALSE)

\* The example of C2: the tree /resources is bundled to /out, and the script
\* server.lua of the resource at games/resource_a is compiled to
\* /out/games/resource_a/server.luac; a non-script file is copied as well.
C2_Witness ==
    /\ outputFile = OutDir
    /\ inputPath = ResourcesDir
    /\ \E i \in FileCalls :
         /\ calls[i].refs[1].FullPath = <<"/", "r", "e", "s", "o", "u", "r", "c", "e", "s", "/", "g", "a", "m", "e", "s", "/", "r", "e", "s", "o", "u", "r", "c", "e", "_", "a", "/", "s", "e", "r", "v", "e", "r", ".", "l", "u", "a">>
         /\ calls[i].output = <<"/", "o", "u", "t", "/", "g", "a", "m", "e", "s", "/", "r", "e", "s", "o", "u", "r", "c", "e", "_", "a", "/", "s", "e", "r", "v", "e", "r", ".", "l", "u", "a", "c">>
    /\ \E i \in Copies :
         copyResult.Results[i].OutputPath = <<"/", "o", "u", "t", "/", "g", "a", "m", "e", "s", "/", "r", "e", "s", "o", "u", "r", "c", "e", "_", "a", "/", "m", "a", "p", "s", "/", "a", ".", "m", "a", "p">>

----------------------------------------------------------------------------
(* The rewritten manifest *)

\* The manifest the current resource was read from, as the pass read it.
InputManifest ==
    IF metaOut # << >> THEN metaOut[1].read ELSE FileAt(res.MetaXMLPath).text

\* Whether a node of a manifest is the start or the end tag of a script element.
IsScriptNode(node) ==
    ~IsComment(node) /\ TagName(node) \in {ScriptName, <<"/">> \o ScriptName}

\* The script tags of a manifest, and its other elements and comments, in
\* document order.
ScriptNodes(text) == SelectSeqOf(Nodes(text), IsScriptNode, 1)

OtherNodes(text) == SelectSeqOf(Nodes(text), LAMBDA n : ~IsScriptNode(n), 1)

\* C3: the manifest written in individual mode holds every element that is no
\* script element, and every comment, exactly as the input manifest has them
\* and in the same order.
C3_IndividualKeepsOtherNodes ==
    ~mergeMode =>
        \A i \in DOMAIN metaOut : OtherNodes(metaOut[i].text) = OtherNodes(InputManifest)

\* C4: the manifest written in merged mode holds every element that is no
\* script element, and every comment, exactly as the input manifest has them
\* and in the same order.
C4_MergedKeepsOtherNodes ==
    mergeMode =>
        \A i \in DOMAIN metaOut : OtherNodes(metaOut[i].text) = OtherNodes(InputManifest)

\* The script elements a merged manifest is to hold: the client element when
\* the client unit has files, then the server element when the server unit has.
MergedScriptElements(r) ==
    (IF Len(allClientFiles(r)) > 0
     THEN <<<<"<", "s", "c", "r", "i", "p", "t", " ", "s", "r", "c", "=", "\"", "c", "l", "i", "e", "n", "t", ".", "l", "u", "a", "c", "\"", " ", "t", "y", "p", "e", "=", "\"", "c", "l", "i", "e", "n", "t", "\"", " ", "c", "a", "c", "h", "e", "=", "\"", "t", "r", "u", "e", "\"", " ", "/", ">">>>> ELSE << >>)
    \o (IF Len(allServerFiles(r)) > 0
        THEN <<<<"<", "s", "c", "r", "i", "p", "t", " ", "s", "r", "c", "=", "\"", "s", "e", "r", "v", "e", "r", ".", "l", "u", "a", "c", "\"", " ", "t", "y", "p", "e", "=", "\"", "s", "e", "r", "v", "e", "r", "\"", " ", "c", "a", "c", "h", "e", "=", "\"", "t", "r", "u", "e", "\"", " ", "/", ">">>>> ELSE << >>)

\* C5: the script elements of the manifest written in merged mode are exactly
\* the client.luac element if the client unit has files and the server.luac
\* element if the server unit has files, in this order; no script element of
\* the input manifest is left.
C5_MergedScriptElements ==
    mergeMode =>
        \A i \in DOMAIN metaOut : ScriptNodes(metaOut[i].text) = MergedScriptElements(res)

\* The closing quote of the src attribute of a script tag: the quote that
\* follows the one opening the value.
SrcOpen(node) ==
    SkipSpace(node, SkipSpace(node, IndexFrom(node, 1, SrcAttr) + Len(SrcAttr)) + 1)

SrcClose(node) == IndexFrom(node, SrcOpen(node) + 1, <<node[SrcOpen(node)]>>)

\* A script tag with the .lua that ends its src made .luac, and nothing else
\* changed; a tag without src, or whose src does not end in .lua, as it is.
WithLuacSrc(node) ==
    IF IndexFrom(node, 1, SrcAttr) # 0
       /\ HasSuffix(SubSeq(node, 1, SrcClose(node) - 1), DotLua)
    THEN SubSeq(node, 1, SrcClose(node) - 1) \o <<"c">> \o From(node, SrcClose(node))
    ELSE node

AllWithLuacSrc(nodes) == [j \in DOMAIN nodes |-> WithLuacSrc(nodes[j])]

\* C6: the script tags of the manifest written in individual mode are those of
\* the input manifest, one for one and in the same order, each with only the
\* .lua directly before the closing quote of its src replaced by .luac.
C6_IndividualScriptSrc ==
    ~mergeMode =>
        \A i \in DOMAIN metaOut :
            ScriptNodes(metaOut[i].text) = AllWithLuacSrc(ScriptNodes(InputManifest))

\* A manifest is written in individual mode whose single-quoted script
\* lib.lua/util.lua became lib.lua/util.luac, beside a script with an end tag.
C6_Witness ==
    /\ ~mergeMode
    /\ metaOut # << >>
    /\ ScriptNodes(InputManifest)
         = << <<"<", "s", "c", "r", "i", "p", "t", " ", "s", "r", "c", "=", "'", "l", "i", "b", ".", "l", "u", "a", "/", "u", "t", "i", "l", ".", "l", "u", "a", "'", " ", "t", "y", "p", "e", "=", "\"", "s", "h", "a", "r", "e", "d", "\"", "/", ">">>,
              <<"<", "s", "c", "r", "i", "p", "t", " ", "s", "r", "c", "=", "\"", "g", "u", "i", "/", "c", "l", "i", "e", "n", "t", ".", "l", "u", "a", "\"", " ", "t", "y", "p", "e", "=", "\"", "c", "l", "i", "e", "n", "t", "\"", ">">>, <<"<", "/", "s", "c", "r", "i", "p", "t", ">">> >>
    /\ ScriptNodes(metaOut[1].text)
         = << <<"<", "s", "c", "r", "i", "p", "t", " ", "s", "r", "c", "=", "'", "l", "i", "b", ".", "l", "u", "a", "/", "u", "t", "i", "l", ".", "l", "u", "a", "c", "'", " ", "t", "y", "p", "e", "=", "\"", "s", "h", "a", "r", "e", "d", "\"", "/", ">">>,
              <<"<", "s", "c", "r", "i", "p", "t", " ", "s", "r", "c", "=", "\"", "g", "u", "i", "/", "c", "l", "i", "e", "n", "t", ".", "l", "u", "a", "c", "\"", " ", "t", "y", "p", "e", "=", "\"", "c", "l", "i", "e", "n", "t", "\"", ">">>, <<"<", "/", "s", "c", "r", "i", "p", "t", ">">> >>

----------------------------------------------------------------------------
(* Script groups *)

\* The bucket the declared type of a script names: its own for client, server
\* and shared, the server bucket for every other value and for none.
DeclaredBucket(type) ==
    IF type = <<"c", "l", "i", "e", "n", "t">> THEN "client"
    ELSE IF type = <<"s", "h", "a", "r", "e", "d">> THEN "shared"
    ELSE "server"

\* The sources of the declared scripts that end in .lua, in any letter case,
\* and are declared for a bucket, in document order.
DeclaredFor(r, bucket) ==
    LET picked == SelectSeqOf(r.Meta.Scripts,
                      LAMBDA s : HasSuffix(ToLower(s.Src), DotLua)
                                 /\ DeclaredBucket(s.Type) = bucket, 1)
    IN  [i \in DOMAIN picked |-> picked[i].Src]

RelativePaths(refs) == [i \in DOMAIN refs |-> refs[i].RelativePath]

FullPaths(refs) == [i \in DOMAIN refs |-> refs[i].FullPath]

Occurrences(path, paths) == Cardinality({i \in DOMAIN paths : paths[i] = path})

\* C8: in merged mode the client unit is compiled from the client bucket
\* followed by the shared bucket and the server unit from the server bucket
\* followed by the shared bucket; a shared script is once in each unit, a
\* client script in no server unit and a server script in no client unit.
C8_MergedUnits ==
    mergeMode =>
        \A i \in DOMAIN calls :
            /\ calls[i].unit = "client" =>
                 /\ calls[i].inputs = FullPaths(GetLuaFilesByType(res).client)
                                      \o FullPaths(GetLuaFilesByType(res).shared)
                 /\ \A j \in DOMAIN GetLuaFilesByType(res).server :
                      Occurrences(GetLuaFilesByType(res).server[j].FullPath, calls[i].inputs) = 0
            /\ calls[i].unit = "server" =>
                 /\ calls[i].inputs = FullPaths(GetLuaFilesByType(res).server)
                                      \o FullPaths(GetLuaFilesByType(res).shared)
                 /\ \A j \in DOMAIN GetLuaFilesByType(res).client :
                      Occurrences(GetLuaFilesByType(res).client[j].FullPath, calls[i].inputs) = 0
            /\ \A j \in DOMAIN GetLuaFilesByType(res).shared :
                 Occurrences(GetLuaFilesByType(res).shared[j].FullPath, calls[i].inputs) = 1

\* A merged pass over a client and a shared script: the client unit was compiled
\* from both, the server unit from the shared script alone.
C8_Witness ==
    /\ mergeMode
    /\ Len(calls) = 2
    /\ calls[1].unit = "client"
    /\ calls[1].inputs = << <<"/", "r", "e", "s", "o", "u", "r", "c", "e", "s", "/", "g", "a", "m", "e", "s", "/", "r", "e", "s", "o", "u", "r", "c", "e", "_", "a", "/", "g", "u", "i", "/", "c", "l", "i", "e", "n", "t", ".", "l", "u", "a">>,
                            <<"/", "r", "e", "s", "o", "u", "r", "c", "e", "s", "/", "g", "a", "m", "e", "s", "/", "r", "e", "s", "o", "u", "r", "c", "e", "_", "a", "/", "l", "i", "b", ".", "l", "u", "a", "/", "u", "t", "i", "l", ".", "l", "u", "a">> >>
    /\ calls[2].unit = "server"
    /\ calls[2].inputs = << <<"/", "r", "e", "s", "o", "u", "r", "c", "e", "s", "/", "g", "a", "m", "e", "s", "/", "r", "e", "s", "o", "u", "r", "c", "e", "_", "a", "/", "l", "i", "b", ".", "l", "u", "a", "/", "u", "t", "i", "l", ".", "l", "u", "a">> >>

----------------------------------------------------------------------------
(* Output file names and in-place output paths *)

\* A file name with the .lua that ends it, in any letter case, made .luac.
LuacName(name) ==
    IF HasSuffix(ToLower(name), DotLua)
    THEN SubSeq(name, 1, Len(name) - Len(DotLua)) \o DotLuac
    ELSE name

\* C9: a script that is compiled (its extension is .lua in any letter case) is
\* written under its base name with the trailing .lua made .luac; a non-script
\* file is copied under its unchanged base name.
C9_OutputFileNames ==
    /\ \A i \in FileCalls :
         Base(calls[i].output) = LuacName(Base(calls[i].refs[1].FullPath))
    /\ \A i \in Copies :
         copyResult.Results[i].RelativePath # Empty =>
             Base(copyResult.Results[i].OutputPath) = Base(copyResult.Results[i].FullPath)

\* C10: without an output root the output path of every file is the resource's
\* base directory joined with the directory of the file's relative path and
\* the output file name, so that every output is in the directory of its
\* source, whatever the input path was.
C10_SameStructure ==
    outputFile = Empty =>
        /\ \A i \in FileCalls :
             /\ calls[i].output = Join(<<res.BaseDir, Dir(calls[i].refs[1].RelativePath),
                                         Base(calls[i].output)>>)
             /\ OnlyExtensionChanged(calls[i].refs[1].FullPath, calls[i].output, TRUE)
        /\ \A i \in Copies :
             /\ copyResult.Results[i].OutputPath
                  = Join(<<res.BaseDir, Dir(copyResult.Results[i].RelativePath),
                           Base(copyResult.Results[i].RelativePath)>>)
             /\ Dir(copyResult.Results[i].OutputPath) = Dir(copyResult.Results[i].FullPath)

\* The tree /resources is bundled in place: the script gui/client.lua of the
\* resource at games/resource_a is compiled into its own directory and the map
\* maps/a.map is copied to where it is.
C10_Witness ==
    /\ outputFile = Empty
    /\ inputPath = ResourcesDir
    /\ \E i \in FileCalls :
         /\ calls[i].refs[1].FullPath = <<"/", "r", "e", "s", "o", "u", "r", "c", "e", "s", "/", "g", "a", "m", "e", "s", "/", "r", "e", "s", "o", "u", "r", "c", "e", "_", "a", "/", "g", "u", "i", "/", "c", "l", "i", "e", "n", "t", ".", "l", "u", "a">>
         /\ calls[i].output = <<"/", "r", "e", "s", "o", "u", "r", "c", "e", "s", "/", "g", "a", "m", "e", "s", "/", "r", "e", "s", "o", "u", "r", "c", "e", "_", "a", "/", "g", "u", "i", "/", "c", "l", "i", "e", "n", "t", ".", "l", "u", "a", "c">>
    /\ \E i \in Copies :
         copyResult.Results[i].OutputPath = <<"/", "r", "e", "s", "o", "u", "r", "c", "e", "s", "/", "g", "a", "m", "e", "s", "/", "r", "e", "s", "o", "u", "r", "c", "e", "_", "a", "/", "m", "a", "p", "s", "/", "a", ".", "m", "a", "p">>

----------------------------------------------------------------------------
(* Agreement of the call sites that resolve output paths *)

\* Where the base directory of the current resource is resolved to: itself
\* without an output root, else its path from the input root taken under the
\* output root.
ResolvedBaseDir ==
    IF outputFile # Empty
    THEN Join(<<Abs(outputFile), Relative(inputPath, res.BaseDir)>>)
    ELSE res.BaseDir

\* C11: the call sites that resolve output paths agree. The directory D the
\* manifest is written to is the resolved position of the resource's base
\* directory; a script and a non-script file whose declared path has the
\* directory d are both placed in the directory D joined with d; the merged
\* units client.luac and server.luac are placed in D itself.
C11_CallSitesAgree ==
    \A m \in DOMAIN metaOut :
        /\ Dir(metaOut[m].path) = ResolvedBaseDir
        /\ \A i \in FileCalls :
             Dir(calls[i].output)
               = Join(<<Dir(metaOut[m].path), Dir(calls[i].refs[1].RelativePath)>>)
        /\ \A i \in DOMAIN calls \ FileCalls : Dir(calls[i].output) = Dir(metaOut[m].path)
        /\ \A i \in Copies :
             Dir(copyResult.Results[i].OutputPath)
               = Join(<<Dir(metaOut[m].path), Dir(copyResult.Results[i].RelativePath)>>)

----------------------------------------------------------------------------
(* The outcome of a pass and of the run *)

\* The pass of the current resource has returned to the loop of
\* compileResources, which printed its outcome.
PassEnded == pc \in {"load", "done"} /\ res # NoResource /\ report # << >>

LastOutcome == report[Len(report)].outcome

\* The pass ended before its copy step: the output directory could not be
\* made, or the manifest could not be written.
Aborted == LastOutcome = "error" /\ errorCount = 0

\* C12: a pass that ends with one of its outcomes, success or success with
\* errors, in either mode and whether or not the manifest declares a Lua
\* script, has written the rewritten manifest and has attempted the copy of
\* every non-script file of the resource, in the catalogue's order.
C12_CopiesAndManifestAlways ==
    PassEnded /\ ~Aborted =>
        /\ Len(metaOut) = 1
        /\ [i \in Copies |-> copyResult.Results[i].FullPath]
             = FullPaths(getNonScriptFiles(res))

\* C13: a pass is reported as a success only if no failure was recorded during
\* it, the failed copies of non-script files counting as well as the failed
\* compilations.
C13_SuccessOnlyWithoutFailures ==
    PassEnded /\ LastOutcome = "ok" =>
        errorCount = 0 /\ copyResult.ErrorCount = 0

\* C14: when the run over the discovered manifests has ended, its exit status
\* is non-zero exactly if some resource could not be loaded or finished its
\* pass with errors.
C14_ExitStatusReflectsFailures ==
    pc = "done" /\ metaPaths # << >> =>
        (exitCode # 0 <=> \E i \in DOMAIN report : report[i].outcome # "ok")

\* The manifests whose processing was printed, in the order of printing.
Attempted == [i \in DOMAIN report |-> report[i].meta]

\* C15: the manifests are attempted one by one in the order of discovery, each
\* once, and the run ends only when every discovered manifest was attempted,
\* whatever the outcome of the earlier ones (manifest unreadable or
\* unparsable, output directory or manifest not written, failed compilations).
C15_EveryManifestAttemptedOnce ==
    /\ Attempted = SubSeq(metaPaths, 1, Len(report))
    /\ pc = "done" /\ metaPaths # << >> => Attempted = metaPaths

\* A run over two manifests has ended: the first resource failed, the second
\* was attempted all the same and succeeded.
C15_Witness ==
    /\ pc = "done"
    /\ Len(metaPaths) = 2
    /\ Len(report) = 2
    /\ report[1].outcome = "error"
    /\ report[2].outcome = "ok"
    /\ calls # << >>

----------------------------------------------------------------------------
(* Safety of the manifest rewriting *)

\* C16: no corrupted manifest is written. The manifest of a loaded resource
\* is well formed; when its rewriting does not give a well-formed manifest
\* the manifest-copy step fails instead of writing it, so that every manifest
\* a pass has written is one that xml.Unmarshal accepts.
C16_NoCorruptManifestWritten ==
    \A i \in DOMAIN metaOut : Parses(metaOut[i].text)

\* C17: in individual mode a manifest none of whose scripts has a src ending
\* in .lua is written exactly as it was read, and rewriting the written
\* manifest once more changes nothing.
C17_IndividualRewriteNoOp ==
    ~mergeMode =>
        \A i \in DOMAIN metaOut :
            /\ (\A j \in DOMAIN res.Meta.Scripts : ~HasSuffix(res.Meta.Scripts[j].Src, DotLua))
                 => metaOut[i].text = InputManifest
            /\ copyAndModifyMetaFile(metaOut[i].text) = metaOut[i].text

----------------------------------------------------------------------------
(* The catalogue of a resource *)

\* The src values of the elements of a manifest that have the given name, in
\* document order.
DeclaredSrcs(text, name) ==
    LET found == SelectSeqOf(Nodes(text), LAMBDA n : IsElement(n, name), 1)
    IN  [i \in DOMAIN found |-> AttrValue(found[i], SrcAttr)]

\* The categories of the catalogue in their sequence: the element's name and
\* the reference type.
CategorySequence ==
    << <<ScriptName, "Script">>, <<MapName, "Map">>, <<ConfigName, "Config">>,
       <<FileName, "File">>, <<HtmlName, "HTML">> >>

\* The references of one category for the declared src values.
ReferencesFor(srcs, dir, type) ==
    [i \in DOMAIN srcs |->
        [FullPath |-> Join(<<dir, srcs[i]>>), ReferenceType |-> type,
         RelativePath |-> srcs[i]]]

\* C18: the catalogue of a resource is, category after category in the
\* sequence scripts, maps, configs, files, html, and in document order within
\* a category, one reference per declared element, whose relative path is the
\* declared src and whose full path is the manifest's directory joined with
\* it; it is a function of the manifest and of its path. (Stated of the
\* resource NewResource has just returned; a pass does not change it.)
C18_CatalogueOrder ==
    pc = "compile" =>
        res.Files = Concat([c \in DOMAIN CategorySequence |->
                               ReferencesFor(DeclaredSrcs(InputManifest, CategorySequence[c][1]),
                                             Dir(res.MetaXMLPath), CategorySequence[c][2])])

\* A resource whose manifest declares a file before a map: the catalogue has
\* the map first.
C18_Witness ==
    /\ pc = "compile"
    /\ RelativePaths(res.Files) = <<<<"m", "a", "p", "s", "/", "a", ".", "m", "a", "p">>, <<"d", "a", "t", "a", ".", "l", "u", "a">>>>
    /\ [i \in DOMAIN res.Files |-> res.Files[i].ReferenceType] = <<"Map", "File">>
    /\ IndexFrom(InputManifest, 1, <<"<", "f", "i", "l", "e">>) < IndexFrom(InputManifest, 1, <<"<", "m", "a", "p">>)

\* C19: every reference of a resource's catalogue has a relative path that is
\* not empty and not absolute; an element without a src value has no
\* reference.
C19_RelativePathsWellFormed ==
    \A i \in DOMAIN res.Files :
        /\ res.Files[i].RelativePath # Empty
        /\ ~IsAbs(res.Files[i].RelativePath)

----------------------------------------------------------------------------
(* Outputs and inputs of a pass *)

\* C20: a pass writes to no path that it reads. The manifest is written to a
\* path other than the one it is read from, a non-script file is copied to a
\* path other than its own, a compilation has an output path that is none of
\* its sources; so the manifest on the disk still has the content the pass
\* read.
C20_OutputsDifferFromInputs ==
    /\ \A i \in DOMAIN metaOut :
         /\ metaOut[i].path # res.MetaXMLPath
         /\ FileAt(res.MetaXMLPath).text = metaOut[i].read
    /\ \A i \in Copies :
         copyResult.Results[i].OutputPath # copyResult.Results[i].FullPath
    /\ \A i \in DOMAIN calls :
         \A j \in DOMAIN calls[i].inputs : calls[i].output # calls[i].inputs[j]

----------------------------------------------------------------------------
(* Containment of the outputs in the output root *)

\* C21: with an output root, every path a pass writes (the rewritten
\* manifest, a copied non-script file, a compiled script, a merged unit) is
\* the output root or lies under it, whatever the input path is.
C21_OutputsUnderOutputRoot ==
    outputFile # Empty =>
        /\ \A i \in DOMAIN metaOut : IsUnder(Abs(outputFile), metaOut[i].path)
        /\ \A i \in Copies : IsUnder(Abs(outputFile), copyResult.Results[i].OutputPath)
        /\ \A i \in DOMAIN calls : IsUnder(Abs(outputFile), calls[i].output)

----------------------------------------------------------------------------
(* The output manifest and the output tree *)

\* The paths a pass has written files to: the copies and the compilations
\* that succeeded.
WrittenFiles ==
    {copyResult.Results[i].OutputPath : i \in {j \in Copies : copyResult.Results[j].Success}}
    \cup {calls[i].output : i \in {j \in DOMAIN calls : calls[j].ok}}

\* The src values, other than "", of the elements of a manifest.
SrcValues(text) ==
    {AttrValue(Nodes(text)[j], SrcAttr) :
        j \in {i \in DOMAIN Nodes(text) : ~IsComment(Nodes(text)[i])}} \ {Empty}

\* A pass in the given mode has ended in which the manifest was written and
\* no copy and no compilation failed.
CleanPass(merged) ==
    /\ PassEnded
    /\ mergeMode = merged
    /\ LastOutcome = "ok"
    /\ metaOut # << >>
    /\ copyResult.ErrorCount = 0

\* C22: after an individual pass with an output root in which nothing failed,
\* every file that a src attribute of the output manifest names is in the
\* output tree, at the src taken from the directory of the output manifest;
\* so is a script that is not compiled because its src does not end in .lua.
C22_ManifestFilesExist ==
    CleanPass(FALSE) /\ outputFile # Empty =>
        \A src \in SrcValues(metaOut[1].text) :
            Join(<<Dir(metaOut[1].path), src>>) \in WrittenFiles

\* The script elements of the manifest the pass wrote, in document order.
OutputScripts == ElementsNamed(metaOut[1].text, ScriptName)

\* C23: in individual mode the written manifest has a script element for each
\* script element of the input, and for every script that was compiled the src
\* of its element in the written manifest, taken from the directory of the
\* written manifest, is the output path the compiler was given; with and
\* without an output root, in sub-directories and for every letter case of
\* the extension.
C23_ManifestNamesCompiledOutputs ==
    ~mergeMode /\ pc = "summary" =>
        /\ Len(OutputScripts) = Len(res.Meta.Scripts)
        /\ \A i \in FileCalls :
             \A j \in DOMAIN res.Meta.Scripts :
                 res.Meta.Scripts[j].Src = calls[i].refs[1].RelativePath
                   => Join(<<Dir(metaOut[1].path), OutputScripts[j].Src>>) = calls[i].output

\* An individual pass to /out over main.LUA and gui/client.lua: the manifest
\* names main.LUA and gui/client.luac, which are the compiler's output paths.
C23_Witness ==
    /\ ~mergeMode
    /\ pc = "summary"
    /\ metaOut[1].path = <<"/", "o", "u", "t", "/", "m", "e", "t", "a", ".", "x", "m", "l">>
    /\ [j \in DOMAIN OutputScripts |-> OutputScripts[j].Src] = <<<<"m", "a", "i", "n", ".", "L", "U", "A">>, <<"g", "u", "i", "/", "c", "l", "i", "e", "n", "t", ".", "l", "u", "a", "c">>>>
    /\ [i \in DOMAIN calls |-> calls[i].output] = <<<<"/", "o", "u", "t", "/", "m", "a", "i", "n", ".", "L", "U", "A">>, <<"/", "o", "u", "t", "/", "g", "u", "i", "/", "c", "l", "i", "e", "n", "t", ".", "l", "u", "a", "c">>>>

----------------------------------------------------------------------------
(* The order of the steps of a pass *)

\* The copy step of the pass has handled every non-script file.
CopyStepFinished == Len(copyResult.Results) = Len(getNonScriptFiles(res))

\* C24: the steps of a pass come in the order manifest, copies, compilation:
\* no file is copied before the manifest is written, the compiler is invoked
\* only when the manifest is written and the copy step has finished, and not
\* at all in a pass whose manifest could not be written.
C24_StepOrder ==
    /\ metaOut = << >> => copyResult.Results = << >> /\ calls = << >>
    /\ calls # << >> \/ pc \in {"files", "client", "server", "summary"}
         => Len(metaOut) = 1 /\ CopyStepFinished
    /\ PassEnded /\ Aborted => calls = << >>

\* A pass has written the manifest, copied a file and then compiled a script.
C24_Witness ==
    /\ pc = "summary"
    /\ Len(metaOut) = 1
    /\ Len(copyResult.Results) = 1
    /\ Len(calls) = 1

----------------------------------------------------------------------------
(* The compilation steps *)

\* The compiler invocations of a unit of the merged mode.
UnitCalls(unit) == {i \in DOMAIN calls : calls[i].unit = unit}

\* The number of units of the merged mode that have files.
NonEmptyUnits(r) ==
    (IF Len(allClientFiles(r)) > 0 THEN 1 ELSE 0) + (IF Len(allServerFiles(r)) > 0 THEN 1 ELSE 0)

ScriptIndex(i) ==
    CHOOSE n \in DOMAIN GetLuaFiles(res) : GetLuaFiles(res)[n] = calls[i].refs[1]

\* C26: in individual mode the loop over the Lua scripts handles them in the
\* catalogue's order, counts each script handled once, as a success or as an
\* error, invokes the compiler at most once for a script, and reaches the
\* last script whatever happened to the earlier ones.
C26_EveryScriptAttemptedOnce ==
    ~mergeMode /\ pc \in {"files", "summary"} =>
        /\ successCount + errorCount = k - 1
        /\ successCount = Cardinality({i \in DOMAIN calls : calls[i].ok})
        /\ \A i \in DOMAIN calls :
             /\ calls[i].unit = "file"
             /\ calls[i].refs[1] \in {GetLuaFiles(res)[n] : n \in 1..(k - 1)}
             /\ \A j \in DOMAIN calls : i < j => ScriptIndex(i) < ScriptIndex(j)
        /\ pc = "summary" => k = Len(GetLuaFiles(res)) + 1

\* An individual pass over two scripts: the compilation of the first failed,
\* the second was compiled after that.
C26_Witness ==
    /\ ~mergeMode
    /\ pc = "summary"
    /\ Len(calls) = 2
    /\ ~calls[1].ok
    /\ calls[2].ok
    /\ errorCount = 1
    /\ successCount = 1

\* The result at place i of the copy step is the one of the non-script file
\* at place i of the catalogue.
ResultOfFile(i) ==
    /\ copyResult.Results[i].RelativePath = getNonScriptFiles(res)[i].RelativePath
    /\ copyResult.Results[i].FullPath = getNonScriptFiles(res)[i].FullPath

\* C27: the copy step handles the non-script files one by one in the
\* catalogue's order and records for each its own result, a failure
\* included; it goes on to the last file whatever happened to the earlier
\* ones, and the compilation step follows it whatever the results are.
C27_CopyFailuresDoNotStop ==
    /\ pc = "copy" => Len(copyResult.Results) = k - 1
    /\ pc \in {"files", "client", "server", "summary"} => CopyStepFinished
    /\ \A i \in Copies : ResultOfFile(i)
    /\ copyResult.ErrorCount
         = Cardinality({i \in Copies : ~copyResult.Results[i].Success})

\* A pass over a resource with two non-script files: the copy of the first
\* failed, the second was copied, and the script was compiled after that.
C27_Witness ==
    /\ pc = "summary"
    /\ Len(copyResult.Results) = 2
    /\ ~copyResult.Results[1].Success
    /\ copyResult.Results[2].Success
    /\ \E i \in DOMAIN calls : calls[i].ok

\* The place of a declared script in the manifest, by its source.
DocumentIndex(r, src) == CHOOSE n \in DOMAIN r.Meta.Scripts : r.Meta.Scripts[n].Src = src

\* Whether a file of a unit was declared with the type shared.
DeclaredShared(r, ref) ==
    DeclaredBucket(r.Meta.Scripts[DocumentIndex(r, ref.RelativePath)].Type) = "shared"

\* C28: the files given to the compiler for a unit are the scripts declared
\* for the unit's side in document order, followed by the scripts declared
\* shared in document order; two files of a unit are in the order of the
\* manifest unless exactly one of them is shared, and then the shared one
\* is the later.
C28_UnitFileOrder ==
    mergeMode =>
        \A i \in DOMAIN calls :
            /\ RelativePaths(calls[i].refs)
                 = DeclaredFor(res, calls[i].unit) \o DeclaredFor(res, "shared")
            /\ \A a, b \in DOMAIN calls[i].refs :
                 a < b =>
                    IF DeclaredShared(res, calls[i].refs[a]) = DeclaredShared(res, calls[i].refs[b])
                    THEN DocumentIndex(res, calls[i].refs[a].RelativePath)
                           < DocumentIndex(res, calls[i].refs[b].RelativePath)
                    ELSE DeclaredShared(res, calls[i].refs[b])

\* A server unit whose shared script was declared before its server script
\* and was given to the compiler after it.
C28_Witness ==
    /\ mergeMode
    /\ \E i \in DOMAIN calls :
         /\ calls[i].unit = "server"
         /\ Len(calls[i].refs) = 2
         /\ DeclaredShared(res, calls[i].refs[2])
         /\ ~DeclaredShared(res, calls[i].refs[1])
         /\ DocumentIndex(res, calls[i].refs[2].RelativePath)
              < DocumentIndex(res, calls[i].refs[1].RelativePath)

----------------------------------------------------------------------------
(* The counters at the end of a pass *)

\* The number of compilations a pass has to attempt.
UnitsToCompile(r) == IF mergeMode THEN NonEmptyUnits(r) ELSE Len(GetLuaFiles(r))

\* The counters of the compilations and of the copy batch agree with the
\* resource, and the pass returned an error exactly when errorCount > 0.
CountersConsistent ==
    /\ successCount + errorCount = UnitsToCompile(res)
    /\ copyResult.SuccessCount + copyResult.ErrorCount = copyResult.TotalFiles
    /\ copyResult.TotalFiles = Len(copyResult.Results)
    /\ \A i \in Copies : ResultOfFile(i)
    /\ LastOutcome = "error" <=> errorCount > 0

\* C29 as stated: the counters are consistent at the end of every pass.
C29_CountersConsistentAtEveryEnd == PassEnded => CountersConsistent

\* C29, amended: the counters are consistent, and the copy batch has a result
\* for every non-script file, at the end of every pass that got past the
\* writing of the manifest; a pass that ended before it counted
\* nothing and copied nothing, and it returned an error exactly when the
\* resource has Lua scripts, the output directory or the manifest having
\* failed.
C29_CountersConsistentAfterManifest ==
    PassEnded =>
        IF metaOut # << >>
        THEN CountersConsistent /\ CopyStepFinished
        ELSE /\ successCount = 0 /\ errorCount = 0
             /\ copyResult.Results = << >>
             /\ LastOutcome = "error" <=> ~HasNoScripts(res)

\* A pass ended with an error after one compilation that succeeded and one
\* that failed.
C29_Witness ==
    /\ PassEnded
    /\ metaOut # << >>
    /\ successCount = 1
    /\ errorCount = 1
    /\ LastOutcome = "error"
    /\ CountersConsistent

----------------------------------------------------------------------------
(* The scripts of the two modes *)

\* The full paths of the scripts the individual mode compiles, and of those
\* of the three buckets of the merged mode together.
IndividualScripts(r) == FullPaths(GetLuaFiles(r))

BucketScripts(r) ==
    FullPaths(GetLuaFilesByType(r).client) \o FullPaths(GetLuaFilesByType(r).server)
        \o FullPaths(GetLuaFilesByType(r).shared)

\* C30: the scripts GetLuaFiles selects and the scripts of the three buckets
\* of GetLuaFilesByType are the same collection: every full path occurs as
\* often among the ones as among the others.
C30_SameScriptsInBothModes ==
    res # NoResource =>
        \A i \in DOMAIN res.Files :
            Occurrences(res.Files[i].FullPath, IndividualScripts(res))
              = Occurrences(res.Files[i].FullPath, BucketScripts(res))

====
